---- MODULE Spec2Model ----
(***************************************************************************)
(* Model of the OpenF1 poller (src/lambdas/poller/handler.py): the durable *)
(* PollState kept in SSM, one Lambda invocation at a time running its      *)
(* polling cycles, and the pure helpers the cycle is built from.           *)
(*                                                                         *)
(* Python values are tagged records: None, Str(s) with s the sequence of   *)
(* the string's code points, Num(n).  A JSON object (a provider record) is *)
(* a function from its keys to such values; dict.get is Get.               *)
(***************************************************************************)
EXTENDS Integers, Sequences, FiniteSets, TLC

(***************************************************************************)
(* Python values                                                           *)
(***************************************************************************)
None == [none |-> TRUE]
Str(s) == [str |-> s]
Num(n) == [num |-> n]

IsStr(v) == DOMAIN v = {"str"}
IsNum(v) == DOMAIN v = {"num"}

\* bool(v): None, "" and 0 are falsy
Truthy(v) ==
  /\ v # None
  /\ v # Str(<<>>)
  /\ v # Num(0)

\* record.get(key, default)
GetOr(record, key, default) == IF key \in DOMAIN record THEN record[key] ELSE default

\* record.get(key)
Get(record, key) == GetOr(record, key, None)

\* the decimal digits of a natural number, as code points
RECURSIVE Digits(_)
Digits(n) == IF n < 10 THEN <<48 + n>> ELSE Append(Digits(n \div 10), 48 + (n % 10))

\* str(v) for the values in play: str(None) is "None", str of a str is itself
str(v) ==
  IF v = None THEN Str(<<78, 111, 110, 101>>)
  ELSE IF IsNum(v) THEN Str(Digits(v.num))
  ELSE v

\* a < b on Python strings: code point by code point, a proper prefix is smaller
LexLess(a, b) ==
  \E i \in 1..Len(b) :
    /\ \A j \in 1..(i - 1) : j <= Len(a) /\ a[j] = b[j]
    /\ \/ i = Len(a) + 1
       \/ i <= Len(a) /\ a[i] < b[i]

LexLeq(a, b) == a = b \/ LexLess(a, b)

\* "global"
GLOBAL == Str(<<103, 108, 111, 98, 97, 108>>)

(***************************************************************************)
(* Configuration                                                           *)
(***************************************************************************)
POLL_INTERVAL == 5
CYCLES_PER_INVOCATION == 11
SESSION_GRACE_PERIOD_MINUTES == 5
PUT_RECORDS_LIMIT == 500
BUCKET_KEY_LEN == 19

\* sleeps, in milliseconds
POLL_INTERVAL_MS == 1000 * POLL_INTERVAL
RATE_LIMIT_DELAY_MS == 350

\* "partition_key_field": None
NO_FIELD == ""

\* the keys of ENDPOINT_CONFIGS in insertion order
EndpointNames == <<"position", "car_data", "laps", "race_control", "weather", "pit">>

Endpoints == {EndpointNames[i] : i \in 1..Len(EndpointNames)}

ENDPOINT_CONFIGS ==
  [name \in Endpoints |->
     CASE name = "position" ->
            [tier |-> "high", date_field |-> "date",
             partition_key_field |-> "driver_number", downsample |-> FALSE]
       [] name = "car_data" ->
            [tier |-> "high", date_field |-> "date",
             partition_key_field |-> "driver_number", downsample |-> TRUE]
       [] name = "laps" ->
            [tier |-> "medium", date_field |-> "date_start",
             partition_key_field |-> "driver_number", downsample |-> FALSE]
       [] name = "race_control" ->
            [tier |-> "low", date_field |-> "date",
             partition_key_field |-> NO_FIELD, downsample |-> FALSE]
       [] name = "weather" ->
            [tier |-> "low", date_field |-> "date",
             partition_key_field |-> NO_FIELD, downsample |-> FALSE]
       [] name = "pit" ->
            [tier |-> "low", date_field |-> "date",
             partition_key_field |-> "driver_number", downsample |-> FALSE]]

(***************************************************************************)
(* Orchestration: the scheduler                                            *)
(***************************************************************************)
\* as Due, with the low tier on the medium tier's period
Due_lowEveryThird(name, invocation_count) ==
  LET tier == ENDPOINT_CONFIGS[name].tier IN
    \/ tier = "high"
    \/ tier = "medium" /\ invocation_count % 3 = 0
    \/ tier = "low" /\ invocation_count % 3 = 0

Due(name, invocation_count) ==
  LET tier == ENDPOINT_CONFIGS[name].tier IN
    \/ tier = "high"
    \/ tier = "medium" /\ invocation_count % 3 = 0
    \/ tier = "low" /\ invocation_count % 6 = 0

select_endpoints(invocation_count) ==
  SelectSeq(EndpointNames, LAMBDA name : Due(name, invocation_count))

(***************************************************************************)
(* Data processing                                                         *)
(***************************************************************************)
\* max(dates): the first of the largest strings
RECURSIVE MaxStr(_)
MaxStr(dates) ==
  IF Len(dates) = 1 THEN dates[1]
  ELSE LET m == MaxStr(SubSeq(dates, 1, Len(dates) - 1))
           d == dates[Len(dates)]
       IN IF LexLess(m.str, d.str) THEN d ELSE m

\* as advance_cursor, taking the date of the last record that carries one
advance_cursor_last(records, date_field) ==
  IF records = <<>> THEN None
  ELSE LET carrying == SelectSeq(records, LAMBDA r : Truthy(Get(r, date_field)))
           dates == [i \in 1..Len(carrying) |-> carrying[i][date_field]]
       IN IF dates # <<>> THEN dates[Len(dates)] ELSE None

advance_cursor(records, date_field) ==
  IF records = <<>> THEN None
  ELSE LET carrying == SelectSeq(records, LAMBDA r : Truthy(Get(r, date_field)))
           dates == [i \in 1..Len(carrying) |-> carrying[i][date_field]]
       IN IF dates # <<>> THEN MaxStr(dates) ELSE None

\* date_str[:19]
Truncate(s) == SubSeq(s, 1, IF Len(s) < BUCKET_KEY_LEN THEN Len(s) ELSE BUCKET_KEY_LEN)

\* d[k] = v on an insertion-ordered dict, held as a sequence of [k, v] items
DictPut(items, k, v) ==
  IF \E i \in 1..Len(items) : items[i].k = k
  THEN [i \in 1..Len(items) |-> IF items[i].k = k THEN [k |-> k, v |-> v] ELSE items[i]]
  ELSE Append(items, [k |-> k, v |-> v])

DictGet(items, k, default) ==
  IF \E i \in 1..Len(items) : items[i].k = k
  THEN (CHOOSE it \in {items[i] : i \in 1..Len(items)} : it.k = k).v
  ELSE default

\* the loop of downsample_car_data over records[1..n]
RECURSIVE Buckets(_, _)
Buckets(records, n) ==
  IF n = 0 THEN <<>>
  ELSE LET buckets == Buckets(records, n - 1)
           record == records[n]
           driver == Get(record, "driver_number")
           date_str == GetOr(record, "date", Str(<<>>))
       IN IF ~Truthy(driver) \/ ~Truthy(date_str) THEN buckets
          ELSE DictPut(buckets, driver,
                       DictPut(DictGet(buckets, driver, <<>>),
                               Truncate(date_str.str), record))

\* as Values, with the latest driver first
RECURSIVE Values_latestFirst(_, _)
Values_latestFirst(buckets, n) ==
  IF n = 0 THEN <<>>
  ELSE LET driver_records == buckets[n].v
       IN [i \in 1..Len(driver_records) |-> driver_records[i].v]
            \o Values_latestFirst(buckets, n - 1)

RECURSIVE Values(_, _)
Values(buckets, n) ==
  IF n = 0 THEN <<>>
  ELSE LET driver_records == buckets[n].v
       IN Values(buckets, n - 1) \o [i \in 1..Len(driver_records) |-> driver_records[i].v]

downsample_car_data(records) ==
  LET buckets == Buckets(records, Len(records))
  IN Values(buckets, Len(buckets))

(***************************************************************************)
(* Kinesis                                                                 *)
(***************************************************************************)
\* ingested_at is the wall clock at build time; it is left out of the envelope
build_kinesis_records(endpoint_name, session_key, records) ==
  LET pk_field == ENDPOINT_CONFIGS[endpoint_name].partition_key_field
  IN [i \in 1..Len(records) |->
        [Data |-> [endpoint |-> endpoint_name, session_key |-> session_key,
                   data |-> records[i]],
         PartitionKey |-> IF pk_field # NO_FIELD
                          THEN str(GetOr(records[i], pk_field, GLOBAL))
                          ELSE GLOBAL]]

build_kinesis_records_oneshot(endpoint_name, session_key, records) ==
  [i \in 1..Len(records) |->
     [Data |-> [endpoint |-> endpoint_name, session_key |-> session_key,
                data |-> records[i]],
      PartitionKey |-> str(GetOr(records[i], "driver_number", GLOBAL))]]

\* range(0, len(records), 500) has this many starts
NumChunks(records) == (Len(records) + PUT_RECORDS_LIMIT - 1) \div PUT_RECORDS_LIMIT

\* as Chunk, with the slice's end included
Chunk_inclusive(records, j) ==
  LET first == PUT_RECORDS_LIMIT * (j - 1) + 1
      last == IF PUT_RECORDS_LIMIT * j + 1 < Len(records)
              THEN PUT_RECORDS_LIMIT * j + 1 ELSE Len(records)
  IN SubSeq(records, first, last)

\* records[i : i + 500] for the j-th start
Chunk(records, j) ==
  LET first == PUT_RECORDS_LIMIT * (j - 1) + 1
      last == IF PUT_RECORDS_LIMIT * j < Len(records)
              THEN PUT_RECORDS_LIMIT * j ELSE Len(records)
  IN SubSeq(records, first, last)

\* what one put_records call does: it raises, or answers with a failed count
SinkRaised == [raised |-> TRUE]
SinkAnswer(failed) == [FailedRecordCount |-> failed]

\* as SentUpTo, with FailedRecordCount left unread
RECURSIVE SentUpTo_wholeChunks(_, _, _)
SentUpTo_wholeChunks(records, sink, j) ==
  IF j = 0 THEN 0
  ELSE SentUpTo_wholeChunks(records, sink, j - 1)
       + (IF sink[j] = SinkRaised THEN 0 ELSE Len(Chunk(records, j)))

\* total_sent after the first j turns of the loop
RECURSIVE SentUpTo(_, _, _)
SentUpTo(records, sink, j) ==
  IF j = 0 THEN 0
  ELSE SentUpTo(records, sink, j - 1)
       + (IF sink[j] = SinkRaised THEN 0
          ELSE Len(Chunk(records, j)) - sink[j].FailedRecordCount)

\* sink[j] is the outcome of the put_records call for the j-th chunk
put_records_batch(records, sink) ==
  IF records = <<>> THEN 0 ELSE SentUpTo(records, sink, NumChunks(records))

(***************************************************************************)
(* State management                                                        *)
(***************************************************************************)
\* as get_initial_state, with the key kept as the provider sent it
get_initial_state_rawKey(session_key_) ==
  [session_key |-> session_key_, invocation_count |-> 0, cursors |-> <<>>]

\* as get_initial_state, with a counter that starts at 1
get_initial_state_one(session_key_) ==
  [session_key |-> str(session_key_), invocation_count |-> 1, cursors |-> <<>>]

get_initial_state(session_key_) ==
  [session_key |-> str(session_key_), invocation_count |-> 0, cursors |-> <<>>]

\* what get_parameter does: it answers (with the parameter, or ParameterNotFound)
\* or it raises something else; the stored JSON text decodes to the state saved
load_state(param, ssm_ok) == IF ssm_ok THEN param ELSE None

\* as save_state, with a put_parameter that writes nothing
save_state_skip(param, state_, ssm_ok) == param

\* as save_state, with a put_parameter that does not overwrite
save_state_noOverwrite(param, state_, ssm_ok) ==
  IF ssm_ok /\ param = None THEN state_ ELSE param

\* what put_parameter leaves in the store: the new state, or the old one if it raised
save_state(param, state_, ssm_ok) == IF ssm_ok THEN state_ ELSE param

(***************************************************************************)
(* Timestamps of the provider: ISO-8601 strings of December 7th, 2025      *)
(***************************************************************************)
Two(n) == <<48 + (n \div 10), 48 + (n % 10)>>

\* "2025-12-07T"
DAY == <<50, 48, 50, 53, 45, 49, 50, 45, 48, 55, 84>>

\* "+00:00"
UTC == <<43, 48, 48, 58, 48, 48>>

\* "2025-12-07Thh:mm:ss"
Clock(h, m, s) == DAY \o Two(h) \o <<58>> \o Two(m) \o <<58>> \o Two(s)

\* "2025-12-07T13:50:ss.f"
Stamp(s, f) == Str(Clock(13, 50, s) \o <<46, 48 + f>>)

IsDigit(c) == c \in 48..57

ValueError == [error |-> "ValueError"]

TypeError == [error |-> "TypeError"]

\* datetime.fromisoformat on "YYYY-MM-DDThh:mm:ss", with the offset "+00:00"
\* (an aware datetime) or without offset (a naive one), as seconds into the
\* month; any other shape is a ValueError
fromisoformat(s) ==
  IF /\ Len(s) \in {19, 25}
     /\ \A i \in {1, 2, 3, 4, 6, 7, 9, 10, 12, 13, 15, 16, 18, 19} : IsDigit(s[i])
     /\ s[5] = 45 /\ s[8] = 45 /\ s[11] = 84 /\ s[14] = 58 /\ s[17] = 58
     /\ Len(s) = 25 => SubSeq(s, 20, 25) = UTC
  THEN LET n(i) == 10 * (s[i] - 48) + (s[i + 1] - 48)
       IN [seconds |-> ((n(9) * 24 + n(12)) * 60 + n(15)) * 60 + n(18),
           aware |-> Len(s) = 25]
  ELSE ValueError

(***************************************************************************)
(* OpenF1 API: the session detector                                        *)
(***************************************************************************)
RequestFailed == [ok |-> FALSE]
Answered(body) == [ok |-> TRUE, body |-> body]

NoSession == [session_key |-> None, session_data |-> None]

\* resp is the outcome of GET /sessions, now the wall clock in seconds into
\* the month (datetime.now(timezone.utc), an aware datetime); the outcome is
\* the pair returned, or the TypeError that now - end_dt raises for a naive
\* end_dt, which except ValueError lets through
detect_active_session(resp, now) ==
  IF ~resp.ok THEN NoSession
  ELSE LET sessions == resp.body IN
    IF sessions = <<>> THEN NoSession
    ELSE LET session == sessions[1]
             date_end == Get(session, "date_end")
             active == [session_key |-> session["session_key"], session_data |-> session]
         IN IF Truthy(date_end)
            THEN LET end_dt == fromisoformat(date_end.str)
                 IN IF end_dt = ValueError THEN active
                    ELSE IF ~end_dt.aware THEN TypeError
                    ELSE IF now - end_dt.seconds > 60 * SESSION_GRACE_PERIOD_MINUTES
                         THEN NoSession
                         ELSE active
            ELSE active

(***************************************************************************)
(* Bounds of the model                                                     *)
(***************************************************************************)
\* the largest cycle index the scheduler is called with on its own
MaxCycleIndex == 59
\* records in a batch advance_cursor is called with on its own
MaxBatchLen == 2
\* records in a list downsample_car_data is called with on its own
MaxSamples == 3
\* put_records calls one put_records_batch call on its own comes to
MaxChunks == 3
\* records build_kinesis_records is called with on its own
MaxEnvelopes == 2
\* invocations of lambda_handler in one behaviour
MaxInvocations == 2
\* outcomes of the environment other than the plain one (a fetch that fails,
\* is rate limited or brings records, a load, save, roster or publish failure)
MaxEvents == 2

(***************************************************************************)
(* The environment: what the provider, the stream and the store may answer *)
(***************************************************************************)
\* the wall clock of an invocation: 14:00:00 on the 7th, in seconds into the month
Now == ((7 * 24 + 14) * 60 + 0) * 60

Session(key) == [f \in {"session_key"} |-> Num(key)]
SessionEnding(key, date_end) ==
  [f \in {"session_key", "date_end"} |-> IF f = "session_key" THEN Num(key) ELSE date_end]

\* GET /sessions: the request fails, no session, session 9159 still running,
\* session 9159 ended at 13:50 (10 minutes ago), session 9160 ended at 13:58;
\* the provider's end timestamps carry the offset "+00:00"
SessionsResponses ==
  {RequestFailed,
   Answered(<<>>),
   Answered(<<Session(9159)>>),
   Answered(<<SessionEnding(9159, Str(Clock(13, 50, 0) \o UTC))>>),
   Answered(<<SessionEnding(9160, Str(Clock(13, 58, 0) \o UTC))>>)}

Stamps == {Stamp(12, 1), Stamp(12, 5)}

\* a provider record of driver 44 with the given timestamp field
Record(date_field, t) ==
  [f \in {"driver_number", date_field} |-> IF f = "driver_number" THEN Num(44) ELSE t]

\* the lists an endpoint may return: empty, one record with a timestamp, one
\* record without the timestamp field, and for car_data two samples of one second
ProviderBatches(name) ==
  LET date_field == ENDPOINT_CONFIGS[name].date_field IN
    {<<>>, <<[f \in {"driver_number"} |-> Num(44)]>>}
      \cup {<<Record(date_field, t)>> : t \in Stamps}
      \cup (IF ENDPOINT_CONFIGS[name].downsample
            THEN {<<Record(date_field, Stamp(12, 5)), Record(date_field, Stamp(12, 1))>>}
            ELSE {})

\* the outcomes of fetch_endpoint: "rate_limited", None, or a list of records
RATE_LIMITED == [rate_limited |-> TRUE]
FetchOutcomes(name) ==
  {RATE_LIMITED, None} \cup {[records |-> b] : b \in ProviderBatches(name)}

\* the four outcomes the orchestrator tells apart
Kind(outcome) ==
  IF outcome = RATE_LIMITED THEN "rate_limited"
  ELSE IF outcome = None THEN "failed"
  ELSE IF outcome.records = <<>> THEN "empty"
  ELSE "records"

\* the outcomes of fetch_drivers: None, or the roster (a list)
Roster == <<[f \in {"driver_number"} |-> Num(44)]>>
DriversOutcomes == {None, [records |-> <<>>], [records |-> Roster]}

\* the outcomes of the put_records calls of one put_records_batch, chunk by
\* chunk: each call raises, or answers with a failed count of 0 or 1
SinkOutcomes(records) ==
  [1..NumChunks(records) -> {SinkRaised, SinkAnswer(0), SinkAnswer(1)}]

SinkClean(records, sink) ==
  \A j \in 1..NumChunks(records) : sink[j] = SinkAnswer(0)

(***************************************************************************)
(* State                                                                   *)
(***************************************************************************)
VARIABLES
  ssm_param,            \* the SSM parameter: None (not found) or the saved state
  stream_configured,    \* KINESIS_STREAM_NAME is not empty
  pc,                   \* where lambda_handler stands
  state,                \* lambda_handler: state
  session_key,          \* lambda_handler: session_key
  session_data,         \* lambda_handler: session_data
  session_changed,      \* lambda_handler: session_changed
  cycle,                \* lambda_handler: cycle
  total_records,        \* lambda_handler: total_records
  count,                \* run_poll_cycle: count
  endpoints,            \* run_poll_cycle: endpoints
  pos,                  \* run_poll_cycle: position of the for loop in endpoints
  all_kinesis_records,  \* run_poll_cycle: all_kinesis_records
  total_sent,           \* run_poll_cycle: total_sent
  result,               \* what the last invocation returned
  invocations,          \* invocations started so far
  events,               \* environment outcomes counted against MaxEvents
  fetchLog,             \* this cycle's fetch_endpoint calls: endpoint, cursor, outcome
  cursorsAtStart,       \* state["cursors"] when this cycle began
  cycleIndices,         \* the arguments of select_endpoints in this invocation
  loaded,               \* session key and counter load_state gave this invocation
  param_changed,        \* the SSM parameter was changed during this invocation
  oneshot,              \* the one-time publish of this invocation, if any
  did,                  \* calls made by this invocation: fetch, publish
  saves,                \* save_state calls made by this invocation
  lastSave,             \* outcome of this invocation's latest save_state
  slept_ms,             \* time slept since the latest fetch_endpoint call
  arg,                  \* the arguments of a helper called on its own
  ret,                  \* what that helper returned
  instances,            \* overlapping invocations: where each stands, its state
  feed,                 \* overlapping invocations: samples the provider has so far
  trail                 \* overlapping invocations: what has happened to the store

durable == <<ssm_param, stream_configured>>
handler == <<state, session_key, session_data, session_changed, cycle, total_records>>
poll == <<count, endpoints, pos, all_kinesis_records, total_sent>>
history == <<fetchLog, cursorsAtStart, cycleIndices, loaded, param_changed, oneshot,
             did, saves, lastSave, slept_ms>>
overlap == <<instances, feed, trail>>
helper == <<arg, ret, overlap>>
vars == <<durable, handler, poll, history, helper, pc, result, invocations, events>>

NoCalls == [fetch |-> FALSE, publish |-> FALSE]

\* nothing stored, nothing running
Quiet ==
  /\ ssm_param = None
  /\ state = None
  /\ session_key = None
  /\ session_data = None
  /\ session_changed = FALSE
  /\ cycle = 0
  /\ total_records = 0
  /\ count = 0
  /\ endpoints = <<>>
  /\ pos = 1
  /\ all_kinesis_records = <<>>
  /\ total_sent = 0
  /\ result = None
  /\ invocations = 0
  /\ events = 0
  /\ fetchLog = <<>>
  /\ cursorsAtStart = <<>>
  /\ cycleIndices = <<>>
  /\ loaded = None
  /\ param_changed = FALSE
  /\ oneshot = None
  /\ did = NoCalls
  /\ saves = 0
  /\ lastSave = "none"
  /\ slept_ms = 0
  /\ ret = None

\* no invocation starts while another one runs
OneAtATime ==
  /\ instances = <<>>
  /\ feed = 0
  /\ trail = None

Init ==
  /\ Quiet
  /\ OneAtATime
  /\ stream_configured \in BOOLEAN
  /\ pc = "idle"
  /\ arg = None

\* the session key and the counter of a state, for the record
Key(state_) ==
  IF state_ = None THEN None
  ELSE [session_key |-> state_.session_key, invocation_count |-> state_.invocation_count]

\* an outcome that counts against MaxEvents needs room for it
Spend(n) == events + n <= MaxEvents /\ events' = events + n

(***************************************************************************)
(* lambda_handler                                                          *)
(***************************************************************************)
\* the trigger fires and the handler loads the state (an invocation starts
\* when the previous one has returned)
LoadState ==
  /\ pc = "idle"
  /\ invocations < MaxInvocations
  /\ invocations' = invocations + 1
  /\ \E ssm_ok \in BOOLEAN :
       /\ Spend(IF ssm_ok THEN 0 ELSE 1)
       /\ state' = load_state(ssm_param, ssm_ok)
       /\ loaded' = Key(load_state(ssm_param, ssm_ok))
  /\ param_changed' = FALSE
  /\ session_key' = None
  /\ session_data' = None
  /\ session_changed' = FALSE
  /\ cycle' = 0
  /\ total_records' = 0
  /\ result' = None
  /\ fetchLog' = <<>>
  /\ cursorsAtStart' = <<>>
  /\ cycleIndices' = <<>>
  /\ oneshot' = None
  /\ did' = NoCalls
  /\ saves' = 0
  /\ lastSave' = "none"
  /\ slept_ms' = 0
  /\ pc' = "detect"
  /\ UNCHANGED <<durable, poll, helper>>

NoActiveSession == [message |-> "no active session"]

\* as EarlyReturn, with the test left out
EarlyReturn_never(detected_key) == FALSE

\* if session_key is None: return
EarlyReturn(detected_key) == detected_key = None

\* detect_active_session, the early return, and the choice of the state
DetectSession ==
  /\ pc = "detect"
  /\ \E resp \in SessionsResponses :
       LET detected == detect_active_session(resp, Now) IN
         /\ session_key' = detected.session_key
         /\ session_data' = detected.session_data
         /\ IF EarlyReturn(detected.session_key)
            THEN /\ result' = NoActiveSession
                 /\ pc' = "idle"
                 /\ UNCHANGED <<state, session_changed>>
            ELSE LET changed == \/ state = None
                                \/ str(state.session_key) # str(detected.session_key)
                 IN /\ state' = IF changed THEN get_initial_state(detected.session_key)
                                ELSE state
                    /\ session_changed' = changed
                    /\ pc' = IF changed /\ stream_configured THEN "oneshot" ELSE "cycle"
                    /\ UNCHANGED result
  /\ UNCHANGED <<durable, cycle, total_records, poll, history, helper, invocations, events>>

\* the one-time records of a new session: session metadata and driver list
OneShot ==
  /\ pc = "oneshot"
  /\ \E drivers \in DriversOutcomes :
       LET session_records ==
             IF session_data # <<>>
             THEN build_kinesis_records_oneshot("sessions", session_key, <<session_data>>)
             ELSE <<>>
           driver_records ==
             IF drivers # None /\ drivers.records # <<>>
             THEN build_kinesis_records_oneshot("drivers", session_key, drivers.records)
             ELSE <<>>
           oneshot_records == session_records \o driver_records
       IN \E sink \in SinkOutcomes(oneshot_records) :
            /\ Spend((IF drivers = None THEN 1 ELSE 0)
                      + (IF SinkClean(oneshot_records, sink) THEN 0 ELSE 1))
            /\ oneshot' = [roster |-> Len(driver_records),
                           endpoints |-> [i \in 1..Len(oneshot_records) |->
                                            oneshot_records[i].Data.endpoint],
                           sent |-> put_records_batch(oneshot_records, sink),
                           after_fetch |-> did.fetch]
            /\ did' = [did EXCEPT !.publish = @ \/ oneshot_records # <<>>]
  /\ slept_ms' = slept_ms + RATE_LIMIT_DELAY_MS
  /\ pc' = "cycle"
  /\ UNCHANGED <<durable, handler, poll, helper, result, invocations, fetchLog,
                 cursorsAtStart, cycleIndices, loaded, param_changed, saves, lastSave>>

(***************************************************************************)
(* run_poll_cycle                                                          *)
(***************************************************************************)
\* the head of run_poll_cycle: the scheduler picks this cycle's endpoints
BeginCycle ==
  /\ pc = "cycle"
  /\ count' = state.invocation_count
  /\ endpoints' = select_endpoints(state.invocation_count)
  /\ pos' = 1
  /\ all_kinesis_records' = <<>>
  /\ total_sent' = 0
  /\ fetchLog' = <<>>
  /\ cursorsAtStart' = state.cursors
  /\ cycleIndices' = Append(cycleIndices, state.invocation_count)
  /\ pc' = IF select_endpoints(state.invocation_count) = <<>> THEN "flush" ELSE "fetch"
  /\ UNCHANGED <<durable, handler, helper, result, invocations, events,
                 loaded, param_changed, oneshot, did, saves, lastSave, slept_ms>>

\* the records the loop body goes on with: car_data is downsampled
Processed(endpoint_name, records) ==
  IF ENDPOINT_CONFIGS[endpoint_name].downsample
  THEN downsample_car_data(records)
  ELSE records

\* as CursorsAfter, with a failed fetch forgetting the endpoint's cursor
CursorsAfter_forget(cursors, endpoint_name, outcome) ==
  IF Kind(outcome) = "failed"
  THEN [e \in DOMAIN cursors \ {endpoint_name} |-> cursors[e]]
  ELSE IF Kind(outcome) = "records"
  THEN LET new_cursor == advance_cursor(Processed(endpoint_name, outcome.records),
                                        ENDPOINT_CONFIGS[endpoint_name].date_field)
       IN IF Truthy(new_cursor)
          THEN [e \in DOMAIN cursors \cup {endpoint_name} |->
                  IF e = endpoint_name THEN new_cursor ELSE cursors[e]]
          ELSE cursors
  ELSE cursors

\* as CursorsAfter, with the new cursor left unstored
CursorsAfter_keep(cursors, endpoint_name, outcome) == cursors

\* state["cursors"] after the loop body has dealt with one fetch outcome: only
\* a non-empty list reaches advance_cursor, and only a cursor that is not
\* empty is stored
CursorsAfter(cursors, endpoint_name, outcome) ==
  IF Kind(outcome) = "records"
  THEN LET new_cursor == advance_cursor(Processed(endpoint_name, outcome.records),
                                        ENDPOINT_CONFIGS[endpoint_name].date_field)
       IN IF Truthy(new_cursor)
          THEN [e \in DOMAIN cursors \cup {endpoint_name} |->
                  IF e = endpoint_name THEN new_cursor ELSE cursors[e]]
          ELSE cursors
  ELSE cursors

\* as AfterFetch, with continue in the place of break
AfterFetch_continue(kind, position, n) ==
  IF position < n THEN [pc |-> "fetch", pos |-> position + 1]
  ELSE [pc |-> "flush", pos |-> position + 1]

\* as AfterFetch, with a rate limited fetch ending the invocation
AfterFetch_abandon(kind, position, n) ==
  IF kind = "rate_limited" THEN [pc |-> "idle", pos |-> position]
  ELSE IF position < n THEN [pc |-> "fetch", pos |-> position + 1]
  ELSE [pc |-> "flush", pos |-> position + 1]

\* where the for loop stands after one fetch outcome: break on "rate_limited",
\* otherwise on to the next endpoint, if any
AfterFetch(kind, position, n) ==
  IF kind = "rate_limited" THEN [pc |-> "flush", pos |-> position]
  ELSE IF position < n THEN [pc |-> "fetch", pos |-> position + 1]
  ELSE [pc |-> "flush", pos |-> position + 1]

\* the pacing sleep closes the loop body, so break and continue skip it
SleptAfter(kind) == IF kind = "records" THEN RATE_LIMIT_DELAY_MS ELSE 0

\* one turn of the for loop: fetch the endpoint, then break, continue, or
\* process the records
FetchEndpoint ==
  /\ pc = "fetch"
  /\ LET endpoint_name == endpoints[pos]
         cursor == Get(state.cursors, endpoint_name)
     IN \E outcome \in FetchOutcomes(endpoint_name) :
          LET kind == Kind(outcome)
              after == AfterFetch(kind, pos, Len(endpoints))
          IN /\ Spend(IF kind = "empty" THEN 0 ELSE 1)
             /\ fetchLog' = Append(fetchLog, [endpoint |-> endpoint_name,
                                              cursor |-> cursor, outcome |-> kind])
             /\ did' = [did EXCEPT !.fetch = TRUE]
             /\ all_kinesis_records' =
                  IF kind = "records"
                  THEN all_kinesis_records
                         \o build_kinesis_records(endpoint_name, state.session_key,
                                                  Processed(endpoint_name, outcome.records))
                  ELSE all_kinesis_records
             /\ state' = [state EXCEPT !.cursors = CursorsAfter(@, endpoint_name, outcome)]
             /\ slept_ms' = SleptAfter(kind)
             /\ pc' = after.pc
             /\ pos' = after.pos
  /\ UNCHANGED <<durable, session_key, session_data, session_changed, cycle,
                 total_records, count, endpoints, total_sent, helper, result, invocations,
                 cursorsAtStart, cycleIndices, loaded, param_changed, oneshot, saves,
                 lastSave>>

\* as CycleCounted, with the increment left out
CycleCounted_same(state_, count_) == [state_ EXCEPT !.invocation_count = count_]

\* state["invocation_count"] = count + 1
CycleCounted(state_, count_) == [state_ EXCEPT !.invocation_count = count_ + 1]

\* the tail of run_poll_cycle: flush to Kinesis, count the cycle
Flush ==
  /\ pc = "flush"
  /\ IF all_kinesis_records # <<>> /\ stream_configured
     THEN \E sink \in SinkOutcomes(all_kinesis_records) :
            /\ Spend(IF SinkClean(all_kinesis_records, sink) THEN 0 ELSE 1)
            /\ total_sent' = put_records_batch(all_kinesis_records, sink)
            /\ did' = [did EXCEPT !.publish = TRUE]
     ELSE /\ total_sent' = 0
          /\ UNCHANGED <<events, did>>
  /\ state' = CycleCounted(state, count)
  /\ pc' = "save"
  /\ UNCHANGED <<durable, session_key, session_data, session_changed, cycle,
                 total_records, count, endpoints, pos, all_kinesis_records, helper, result,
                 invocations, fetchLog, cursorsAtStart, cycleIndices, loaded,
                 param_changed, oneshot, saves, lastSave, slept_ms>>

Summary(key, sent) ==
  [session_key |-> key, cycles |-> CYCLES_PER_INVOCATION, total_records_sent |-> sent]

\* the rest of the loop body of lambda_handler: add up, save the state, then
\* sleep before the next cycle or return the summary
SaveState ==
  /\ pc = "save"
  /\ total_records' = total_records + total_sent
  /\ \E ssm_ok \in BOOLEAN :
       /\ Spend(IF ssm_ok THEN 0 ELSE 1)
       /\ ssm_param' = save_state(ssm_param, state, ssm_ok)
       /\ lastSave' = IF ssm_ok THEN "saved" ELSE "failed"
       /\ param_changed' = (param_changed \/ save_state(ssm_param, state, ssm_ok) # ssm_param)
  /\ saves' = saves + 1
  /\ IF cycle < CYCLES_PER_INVOCATION - 1
     THEN /\ slept_ms' = slept_ms + POLL_INTERVAL_MS
          /\ cycle' = cycle + 1
          /\ pc' = "cycle"
          /\ UNCHANGED result
     ELSE /\ result' = Summary(session_key, total_records + total_sent)
          /\ pc' = "idle"
          /\ UNCHANGED <<slept_ms, cycle>>
  /\ UNCHANGED <<stream_configured, state, session_key, session_data, session_changed,
                 poll, helper, invocations, fetchLog, cursorsAtStart, cycleIndices, loaded,
                 oneshot, did>>

Next ==
  \/ LoadState
  \/ DetectSession
  \/ OneShot
  \/ BeginCycle
  \/ FetchEndpoint
  \/ Flush
  \/ SaveState

Spec == Init /\ [][Next]_vars

\* the steps of a running invocation: Python runs the handler to its return
Run ==
  \/ DetectSession
  \/ OneShot
  \/ BeginCycle
  \/ FetchEndpoint
  \/ Flush
  \/ SaveState

FairSpec == Spec /\ WF_vars(Run)

(***************************************************************************)
(* The helpers called on their own                                         *)
(***************************************************************************)
SeqsUpTo(S, n) == UNION {[1..k -> S] : k \in 0..n}

\* select_endpoints on every cycle index up to MaxCycleIndex
InitSelect ==
  /\ Quiet
  /\ OneAtATime
  /\ stream_configured = FALSE
  /\ pc = "call"
  /\ arg \in 0..MaxCycleIndex

CallSelect ==
  /\ pc = "call"
  /\ ret' = select_endpoints(arg)
  /\ pc' = "returned"
  /\ UNCHANGED <<durable, handler, poll, history, overlap, arg, result, invocations, events>>

SpecSelect == InitSelect /\ [][CallSelect]_vars

\* the "date" values of a record: a timestamp, "", null, or no such key
DateValues == {Stamp(12, 1), Stamp(12, 5), Stamp(13, 1), Str(<<>>), None}
CursorRecords ==
  {[f \in {"driver_number", "date"} |-> IF f = "driver_number" THEN Num(44) ELSE v] :
      v \in DateValues}
    \cup {[f \in {"driver_number"} |-> Num(44)]}

\* advance_cursor on two batches, one call after the other
InitCursor ==
  /\ Quiet
  /\ OneAtATime
  /\ stream_configured = FALSE
  /\ pc = "call"
  /\ arg \in [first : SeqsUpTo(CursorRecords, MaxBatchLen),
              second : SeqsUpTo(CursorRecords, MaxBatchLen)]

CallAdvance ==
  /\ pc = "call"
  /\ ret' = [first |-> advance_cursor(arg.first, "date"),
             second |-> advance_cursor(arg.second, "date")]
  /\ pc' = "returned"
  /\ UNCHANGED <<durable, handler, poll, history, overlap, arg, result, invocations, events>>

SpecCursor == InitCursor /\ [][CallAdvance]_vars

\* car_data samples: driver 44, 1 or 0 or no driver_number; a timestamp of
\* second 12 or 13, "" or no date
SampleDrivers == {Num(44), Num(1), Num(0)}
SampleDates == {Stamp(12, 1), Stamp(12, 5), Stamp(13, 1), Str(<<>>)}
Samples ==
  {[f \in {"driver_number", "date"} |-> IF f = "driver_number" THEN d ELSE t] :
      d \in SampleDrivers, t \in SampleDates}
    \cup {[f \in {"driver_number"} |-> d] : d \in SampleDrivers}
    \cup {[f \in {"date"} |-> t] : t \in SampleDates}

\* downsample_car_data on a list, and on its own output
InitDownsample ==
  /\ Quiet
  /\ OneAtATime
  /\ stream_configured = FALSE
  /\ pc = "call"
  /\ arg \in SeqsUpTo(Samples, MaxSamples)

CallDownsample ==
  /\ pc = "call"
  /\ ret' = [once |-> downsample_car_data(arg),
             twice |-> downsample_car_data(downsample_car_data(arg))]
  /\ pc' = "returned"
  /\ UNCHANGED <<durable, handler, poll, history, overlap, arg, result, invocations, events>>

SpecDownsample == InitDownsample /\ [][CallDownsample]_vars

\* envelope lists around the chunk boundaries; an envelope is its number
PublishLens ==
  {0, 1} \cup {PUT_RECORDS_LIMIT * k + d : k \in 1..(MaxChunks - 1), d \in {-1, 0, 1}}
EnvelopeLists == {[i \in 1..n |-> i] : n \in PublishLens}

\* what put_records may do with a chunk: raise, or answer with a failed
\* count of 0, of 1 or of the whole chunk
ChunkOutcomes(chunk) == {SinkRaised, SinkAnswer(0), SinkAnswer(1), SinkAnswer(Len(chunk))}

InitPublish ==
  /\ Quiet
  /\ OneAtATime
  /\ stream_configured = TRUE
  /\ pc = "call"
  /\ arg \in EnvelopeLists

\* put_records_batch is entered: nothing to send, or the loop starts
BeginPublish ==
  /\ pc = "call"
  /\ ret' = [calls |-> <<>>, sink |-> <<>>, total_sent |-> 0]
  /\ pc' = IF arg = <<>> THEN "returned" ELSE "loop"
  /\ UNCHANGED <<durable, handler, poll, history, overlap, arg, result, invocations, events>>

\* one turn of the loop: the next chunk goes to put_records, once
PutChunk ==
  /\ pc = "loop"
  /\ LET j == Len(ret.calls) + 1
         chunk == Chunk(arg, j)
     IN /\ \E outcome \in ChunkOutcomes(chunk) :
             ret' = [calls |-> Append(ret.calls, chunk),
                     sink |-> Append(ret.sink, outcome),
                     total_sent |-> SentUpTo(arg, Append(ret.sink, outcome), j)]
        /\ pc' = IF j < NumChunks(arg) THEN "loop" ELSE "returned"
  /\ UNCHANGED <<durable, handler, poll, history, overlap, arg, result, invocations, events>>

SpecPublish == InitPublish /\ [][BeginPublish \/ PutChunk]_vars

\* provider records by their driver_number: a number, null, "", or no such key
KeyedRecords ==
  {[f \in {"driver_number"} |-> v] : v \in {Num(44), Num(0), None, Str(<<>>)}}
    \cup {[f \in {"date"} |-> Stamp(12, 1)]}

\* build_kinesis_records for every catalog endpoint
InitEnvelope ==
  /\ Quiet
  /\ OneAtATime
  /\ stream_configured = TRUE
  /\ pc = "call"
  /\ arg \in [endpoint : Endpoints, records : SeqsUpTo(KeyedRecords, MaxEnvelopes)]

CallBuild ==
  /\ pc = "call"
  /\ ret' = build_kinesis_records(arg.endpoint, str(Num(9159)), arg.records)
  /\ pc' = "returned"
  /\ UNCHANGED <<durable, handler, poll, history, overlap, arg, result, invocations, events>>

SpecEnvelope == InitEnvelope /\ [][CallBuild]_vars

\* the date_end of a session: a time between 13:50:00 and 13:59:59 with the
\* offset "+00:00" or without offset, "TBD", "", or null
EndStamps ==
  {Str(Clock(13, m, sec) \o offset) : m \in 50..59, sec \in {0, 59}, offset \in {UTC, <<>>}}
    \cup {Str(<<84, 66, 68>>), Str(<<>>), None}

\* GET /sessions as the detector may find it
DetectResponses ==
  {RequestFailed, Answered(<<>>)}
    \cup {Answered(<<Session(key)>>) : key \in {9159, 9160}}
    \cup {Answered(<<SessionEnding(key, date_end)>>) : key \in {9159, 9160}, date_end \in EndStamps}

\* detect_active_session at 14:00:00
InitDetect ==
  /\ Quiet
  /\ OneAtATime
  /\ stream_configured = FALSE
  /\ pc = "call"
  /\ arg \in DetectResponses

CallDetect ==
  /\ pc = "call"
  /\ ret' = detect_active_session(arg, Now)
  /\ pc' = "returned"
  /\ UNCHANGED <<durable, handler, poll, history, overlap, arg, result, invocations, events>>

SpecDetect == InitDetect /\ [][CallDetect]_vars

(***************************************************************************)
(* Invocations that may overlap: the trigger fires while an invocation is  *)
(* still running.  KINESIS_STREAM_NAME is empty, the session is 9159, the  *)
(* store and the provider answer every call.                               *)
(***************************************************************************)
Instances == {1, 2}

\* the position samples the provider comes to have, oldest first; it has no
\* records of the other endpoints
Feed == <<Stamp(12, 1), Stamp(12, 5)>>

\* GET on an endpoint with the parameter date> cursor: the samples so far
\* that are newer than the cursor
Newer(name, cursor, n) ==
  LET date_field == ENDPOINT_CONFIGS[name].date_field
      all == IF name = "position" THEN [i \in 1..n |-> Record(date_field, Feed[i])] ELSE <<>>
  IN SelectSeq(all, LAMBDA r : \/ ~Truthy(cursor)
                              \/ LexLess(cursor.str, r[date_field].str))

\* state["cursors"] after the endpoint loop has gone through names[1..k]
RECURSIVE Polled(_, _, _, _)
Polled(cursors, names, k, n) ==
  IF k = 0 THEN cursors
  ELSE LET before == Polled(cursors, names, k - 1, n)
       IN CursorsAfter(before, names[k],
                       [records |-> Newer(names[k], Get(before, names[k]), n)])

Waiting == [at |-> "idle", state |-> None, cycle |-> 0, loaded |-> None]

Busy(i) == instances[i].at \in {"cycle", "save"}

InitOverlap ==
  /\ Quiet
  /\ stream_configured = FALSE
  /\ pc = "overlap"
  /\ arg = None
  /\ instances = [i \in Instances |-> Waiting]
  /\ feed = 0
  /\ trail = [overlapped |-> FALSE, cursor_back |-> FALSE, counter_back |-> FALSE,
              final |-> None]

\* the trigger fires: lambda_handler up to its first cycle (load_state,
\* detect_active_session, the choice of the state); the new invocation is the
\* first instance that is free
Trigger(i) ==
  /\ instances[i].at = "idle"
  /\ \A other \in Instances : other < i => Busy(other)
  /\ invocations < MaxInvocations
  /\ invocations' = invocations + 1
  /\ LET loaded_ == load_state(ssm_param, TRUE)
         detected == detect_active_session(Answered(<<Session(9159)>>), Now)
         changed == \/ loaded_ = None
                    \/ str(loaded_.session_key) # str(detected.session_key)
     IN instances' = [instances EXCEPT ![i] =
                        [at |-> "cycle",
                         state |-> IF changed THEN get_initial_state(detected.session_key)
                                   ELSE loaded_,
                         cycle |-> 0,
                         loaded |-> loaded_]]
  /\ trail' = [trail EXCEPT !.overlapped = @ \/ \E other \in Instances \ {i} : Busy(other)]
  /\ UNCHANGED <<durable, handler, poll, history, arg, ret, feed, pc, result, events>>

\* run_poll_cycle of one invocation: every selected endpoint is fetched with
\* its cursor, the cursors move, the cycle is counted
PollCycle(i) ==
  /\ instances[i].at = "cycle"
  /\ LET state_ == instances[i].state
         count_ == state_.invocation_count
         names == select_endpoints(count_)
     IN instances' = [instances EXCEPT ![i].at = "save",
                                       ![i].state = CycleCounted(
                                          [state_ EXCEPT !.cursors =
                                             Polled(@, names, Len(names), feed)], count_)]
  /\ UNCHANGED <<durable, handler, poll, history, arg, ret, feed, trail, pc, result,
                 invocations, events>>

\* new takes the place of old in the store: the cursor of some endpoint is
\* lower or gone, the counter is lower
CursorBack(old, new) ==
  /\ old # None
  /\ old.session_key = new.session_key
  /\ \E e \in DOMAIN old.cursors :
       \/ e \notin DOMAIN new.cursors
       \/ LexLess(new.cursors[e].str, old.cursors[e].str)

CounterBack(old, new) ==
  /\ old # None
  /\ old.session_key = new.session_key
  /\ new.invocation_count < old.invocation_count

\* save_state after a cycle, then the next cycle or the return
Save(i) ==
  /\ instances[i].at = "save"
  /\ ssm_param' = save_state(ssm_param, instances[i].state, TRUE)
  /\ LET last == instances[i].cycle = CYCLES_PER_INVOCATION - 1
     IN /\ instances' = [instances EXCEPT ![i] =
                            IF last THEN Waiting
                            ELSE [@ EXCEPT !.at = "cycle", !.cycle = @ + 1]]
        /\ trail' = [trail EXCEPT
                       !.cursor_back = @ \/ CursorBack(ssm_param, instances[i].state),
                       !.counter_back = @ \/ CounterBack(ssm_param, instances[i].state),
                       !.final = IF last THEN instances[i].state ELSE @]
  /\ UNCHANGED <<stream_configured, handler, poll, history, arg, ret, feed, pc, result,
                 invocations, events>>

\* the provider has one more sample
Sample ==
  /\ feed < Len(Feed)
  /\ feed' = feed + 1
  /\ UNCHANGED <<durable, handler, poll, history, arg, ret, instances, trail, pc, result,
                 invocations, events>>

NextOverlap ==
  \/ \E i \in Instances : Trigger(i)
  \/ \E i \in Instances : PollCycle(i)
  \/ \E i \in Instances : Save(i)
  \/ Sample

SpecOverlap == InitOverlap /\ [][NextOverlap]_vars

(***************************************************************************)
\* run_poll_cycle is between its first line and its return
InCycle == pc \in {"fetch", "flush"}

\* run_poll_cycle has returned and its cycle's save is due
CycleOver == pc = "save"

\* C1: within one polling cycle the fetch_endpoint calls go through the
\* selected endpoints in order, and once a call is rate limited it is the last
\* call of the cycle: the loop is left and no endpoint placed after it is fetched.
C1_RateLimitEndsCycleFetches ==
  /\ Len(fetchLog) <= Len(endpoints)
  /\ \A i \in 1..Len(fetchLog) :
       /\ fetchLog[i].endpoint = endpoints[i]
       /\ fetchLog[i].outcome = "rate_limited" => i = Len(fetchLog) /\ pc # "fetch"

\* a cycle is over whose first endpoint was rate limited while others were due
C1_Witness ==
  /\ CycleOver
  /\ Len(fetchLog) = 1
  /\ fetchLog[1].outcome = "rate_limited"
  /\ Len(endpoints) = 6

\* C2: an endpoint whose fetch failed in this cycle has the cursor it had when
\* the cycle began (absent if it was absent), and that is the cursor its
\* request carried, so the next fetch of the endpoint asks for the same window.
C2_FailedLeavesCursor ==
  \A i \in 1..Len(fetchLog) :
    fetchLog[i].outcome = "failed" =>
      LET e == fetchLog[i].endpoint IN
        /\ e \in DOMAIN state.cursors <=> e \in DOMAIN cursorsAtStart
        /\ Get(state.cursors, e) = Get(cursorsAtStart, e)
        /\ Get(state.cursors, e) = fetchLog[i].cursor

\* a cycle is over in which the fetch of an endpoint with a stored cursor failed
C2_Witness ==
  /\ CycleOver
  /\ \E i \in 1..Len(fetchLog) :
       /\ fetchLog[i].outcome = "failed"
       /\ fetchLog[i].endpoint \in DOMAIN state.cursors

(***************************************************************************)
(* Properties of the invocation                                            *)
(***************************************************************************)
Range(seq) == {seq[i] : i \in 1..Len(seq)}

\* lambda_handler has detected a session and not returned yet
Polling == pc \in {"oneshot", "cycle", "fetch", "flush", "save"}

\* the state get_initial_state builds for the detected session
Fresh == [session_key |-> str(session_key), invocation_count |-> 0, cursors |-> <<>>]

\* C3 as claimed: when the session changed, both one-time envelopes, "sessions"
\* and "drivers", have been published by the time the first endpoint fetch of
\* the invocation is due (stated for a configured stream only).
C3_BothEnvelopesPublished ==
  (session_changed /\ stream_configured /\ pc = "fetch") =>
    /\ oneshot # None
    /\ {"sessions", "drivers"} \subseteq Range(oneshot.endpoints)

\* C3, amended: the session counts as changed exactly when no state was loaded
\* or the loaded key differs from the detected one; the state is then the fresh
\* one (counter 0, no cursors) and the first cycle is scheduled with index 0;
\* with a stream configured the one-time batch goes to the publisher once,
\* before any endpoint fetch, holding the "sessions" envelope followed by one
\* "drivers" envelope per roster entry fetched (none if the roster fetch failed
\* or was empty); with no stream configured, or an unchanged session, there is
\* no one-time publish.
C3_FreshStateThenOneShot ==
  Polling =>
    /\ session_changed <=> (loaded = None \/ loaded.session_key # str(session_key))
    /\ session_changed =>
         /\ (pc = "oneshot" \/ (pc = "cycle" /\ cycle = 0)) => state = Fresh
         /\ cycleIndices # <<>> => cycleIndices[1] = 0
         /\ (stream_configured /\ pc # "oneshot") =>
              /\ oneshot # None
              /\ ~oneshot.after_fetch
              /\ oneshot.endpoints =
                   <<"sessions">> \o [i \in 1..oneshot.roster |-> "drivers"]
         /\ ~stream_configured => oneshot = None
    /\ pc = "oneshot" => ~did.fetch /\ oneshot = None
    /\ ~session_changed => oneshot = None

\* the stored state is of another session, and the first fetch is due after
\* the one-time publish of "sessions" and "drivers"
C3_Witness ==
  /\ pc = "fetch"
  /\ ~did.fetch
  /\ session_changed
  /\ loaded # None
  /\ state = Fresh
  /\ oneshot # None
  /\ oneshot.endpoints = <<"sessions", "drivers">>

\* C4: an invocation whose detector returned no session has returned the
\* "no active session" result without running a cycle, fetching an endpoint,
\* publishing, calling save_state or changing the SSM parameter.
C4_NoSessionNoEffect ==
  (invocations > 0 /\ pc # "detect" /\ session_key = None) =>
    /\ pc = "idle"
    /\ result = NoActiveSession
    /\ cycleIndices = <<>>
    /\ did = NoCalls
    /\ oneshot = None
    /\ saves = 0
    /\ ~param_changed

\* no session was detected although a state with a session key was stored and loaded
C4_Witness ==
  /\ pc = "idle"
  /\ result = NoActiveSession
  /\ ssm_param # None
  /\ loaded # None

\* C6 as claimed: a step that leaves the stored session key the same never
\* lowers the stored invocation_count.
C6_StoredCounterNeverDecreases ==
  [][(/\ ssm_param # None
      /\ ssm_param' # None
      /\ ssm_param'.session_key = ssm_param.session_key)
       => ssm_param'.invocation_count >= ssm_param.invocation_count]_vars

\* C7: the scheduler is called with the counter of the state; the indices of
\* an invocation's cycles go up by one per cycle whatever the cycle's fetches
\* brought; they start at the loaded counter when the session is unchanged;
\* and an invocation that returns a summary has run 11 of them.
C7_CounterDrivesScheduler ==
  /\ Len(cycleIndices) <= CYCLES_PER_INVOCATION
  /\ \A i \in 1..Len(cycleIndices) : cycleIndices[i] = cycleIndices[1] + (i - 1)
  /\ (cycleIndices # <<>> /\ ~session_changed) =>
       loaded # None /\ cycleIndices[1] = loaded.invocation_count
  /\ InCycle =>
       /\ count = cycleIndices[Len(cycleIndices)]
       /\ count = state.invocation_count
       /\ endpoints = select_endpoints(state.invocation_count)
  /\ CycleOver => state.invocation_count = cycleIndices[Len(cycleIndices)] + 1
  /\ (pc = "idle" /\ result \notin {None, NoActiveSession}) =>
       Len(cycleIndices) = CYCLES_PER_INVOCATION

\* the second invocation of a session loaded counter 11 and has polled with
\* the indices 11 to 21, a rate limited cycle among them
C7_Witness ==
  /\ pc = "idle"
  /\ result \notin {None, NoActiveSession}
  /\ ~session_changed
  /\ loaded # None
  /\ loaded.invocation_count = CYCLES_PER_INVOCATION
  /\ cycleIndices[CYCLES_PER_INVOCATION] = 2 * CYCLES_PER_INVOCATION - 1
  /\ \E i \in 1..Len(fetchLog) : fetchLog[i].outcome = "rate_limited"

\* what a restart would load for this session: the stored state, or nothing
\* to build on when none is stored for the session
Stored ==
  IF ssm_param # None /\ ssm_param.session_key = state.session_key
  THEN ssm_param
  ELSE Fresh

\* the endpoints whose cursor in memory is not the stored one
Unsaved == {e \in Endpoints : Get(state.cursors, e) # Get(Stored.cursors, e)}

\* C8 as claimed: once a cycle of the invocation has been followed by its
\* save_state call, the stored state is the state in memory but for at most
\* one counter increment and the cursors of endpoints fetched in this cycle.
C8_AtMostOneCycleBehind ==
  (Polling /\ saves >= 1) =>
    /\ state.invocation_count - Stored.invocation_count \in {0, 1}
    /\ Unsaved \subseteq {fetchLog[i].endpoint : i \in 1..Len(fetchLog)}

\* C8, amended: save_state is called once after every cycle, before the next
\* one starts; and while the latest call succeeded, the stored state is the
\* state in memory as the last completed cycle left it: the state in memory
\* differs by the cursors the running cycle moved (endpoints that returned
\* records) and, once the cycle is counted, by one counter increment.
C8_SavedAfterEveryCycle ==
  /\ saves = (IF pc \in {"fetch", "flush", "save"}
              THEN Len(cycleIndices) - 1 ELSE Len(cycleIndices))
  /\ (Polling /\ lastSave = "saved") =>
       /\ pc = "cycle" => ssm_param = state
       /\ InCycle => ssm_param = [state EXCEPT !.cursors = cursorsAtStart]
       /\ CycleOver => ssm_param = [state EXCEPT !.cursors = cursorsAtStart,
                                                 !.invocation_count = @ - 1]
       /\ pc # "cycle" =>
            \A e \in Endpoints :
              Get(state.cursors, e) # Get(cursorsAtStart, e) =>
                \E i \in 1..Len(fetchLog) :
                  fetchLog[i].endpoint = e /\ fetchLog[i].outcome = "records"

\* the previous cycle was saved and this one, now over, moved a cursor that
\* is not stored yet
C8_Witness ==
  /\ CycleOver
  /\ lastSave = "saved"
  /\ state.cursors # ssm_param.cursors
  /\ state.invocation_count = ssm_param.invocation_count + 1

\* C9: an invocation that detected a session goes on to return its summary,
\* and it has then run and saved exactly 11 cycles, whatever the fetches, the
\* publishes, the load and the saves did on the way; it returns in no other way.
C9_InvocationCompletes ==
  /\ [](pc = "idle" /\ session_key # None =>
          /\ result = Summary(session_key, total_records)
          /\ Len(cycleIndices) = CYCLES_PER_INVOCATION
          /\ saves = CYCLES_PER_INVOCATION)
  /\ (Polling ~> (/\ pc = "idle"
                  /\ result = Summary(session_key, total_records)
                  /\ Len(cycleIndices) = CYCLES_PER_INVOCATION))

\* the summary is returned by an invocation whose last cycle was rate limited
\* on its second endpoint and then failed to save
C9_Witness ==
  /\ pc = "idle"
  /\ result = Summary(session_key, total_records)
  /\ lastSave = "failed"
  /\ Len(fetchLog) = 2
  /\ fetchLog[2].outcome = "rate_limited"

(***************************************************************************)
(* Properties of the helpers                                               *)
(***************************************************************************)
Returned == pc = "returned"

Tier(t) == {name \in Endpoints : ENDPOINT_CONFIGS[name].tier = t}

\* C5: select_endpoints(c) lists catalog endpoints only, each at most once:
\* every high-tier one, the medium-tier ones exactly when c mod 3 = 0 and the
\* low-tier ones exactly when c mod 6 = 0.
C5_TierRotation ==
  Returned =>
    /\ Range(ret) \subseteq Endpoints
    /\ Cardinality(Range(ret)) = Len(ret)
    /\ Tier("high") \subseteq Range(ret)
    /\ \A name \in Tier("medium") : name \in Range(ret) <=> arg % 3 = 0
    /\ \A name \in Tier("low") : name \in Range(ret) <=> arg % 6 = 0

\* a cycle index that is due for the medium tier and not for the low tier
C5_Witness ==
  /\ Returned
  /\ arg = 9
  /\ ret = <<"position", "car_data", "laps">>

\* the timestamps of a batch: the non-empty values of the "date" field
Dates(records) ==
  {v \in {Get(records[i], "date") : i \in 1..Len(records)} : Truthy(v)}

\* tenths of a second into the minute of a Stamp
Tenths(t) == (10 * (t.str[18] - 48) + (t.str[19] - 48)) * 10 + (t.str[21] - 48)

\* no record of the second batch is older than a record of the first
TimeOrdered(first, second) ==
  \A a \in Dates(first), b \in Dates(second) : Tenths(a) <= Tenths(b)

\* cursor is the largest string among the batch's timestamps, None if there is none
IsMaxDate(cursor, records) ==
  IF Dates(records) = {} THEN cursor = None
  ELSE /\ cursor \in Dates(records)
       /\ \A d \in Dates(records) : LexLeq(d.str, cursor.str)

\* C10: advance_cursor returns the lexicographic maximum of the batch's
\* timestamps, None for a batch without one; and of two batches in time order
\* that both yield a cursor, the second cursor is not below the first.
C10_CursorIsMaxAndMonotone ==
  Returned =>
    /\ IsMaxDate(ret.first, arg.first)
    /\ IsMaxDate(ret.second, arg.second)
    /\ (TimeOrdered(arg.first, arg.second) /\ ret.first # None /\ ret.second # None)
         => LexLeq(ret.first.str, ret.second.str)

\* two batches in time order, the first with its records out of order, and
\* the cursor moves on from one to the other
C10_Witness ==
  /\ Returned
  /\ TimeOrdered(arg.first, arg.second)
  /\ Len(arg.first) = 2
  /\ Get(arg.first[1], "date") = Stamp(12, 5)
  /\ Get(arg.first[2], "date") = Stamp(12, 1)
  /\ ret.first = Stamp(12, 5)
  /\ ret.second = Stamp(13, 1)

\* C11: downsample_car_data applied to its own output gives that output again.
C11_DownsampleIdempotent ==
  Returned => ret.twice = ret.once

\* samples of two drivers and two seconds, with one second sampled twice: the
\* output differs from the input and a second pass leaves it alone
C11_Witness ==
  /\ Returned
  /\ Len(arg) = 3
  /\ Len(ret.once) = 2
  /\ ret.once[1].driver_number # ret.once[2].driver_number
  /\ ret.twice = ret.once

\* the record has the field, with a value that is not null and not ""
Carries(record, field) ==
  /\ field \in DOMAIN record
  /\ record[field] # None
  /\ record[field] # Str(<<>>)

\* entity id and whole second of a record that carries both fields
Pair(record) == <<record.driver_number, Truncate(record.date.str)>>

Complete(records) ==
  {i \in 1..Len(records) : Carries(records[i], "driver_number") /\ Carries(records[i], "date")}

\* C12: the output of downsample_car_data is no longer than its input, has no
\* two records of the same entity id and whole second, and holds for each
\* (entity id, whole second) pair of the input records that carry both fields
\* exactly the last such record in input order; records missing a field are dropped.
C12_OnePerEntityAndSecond ==
  Returned =>
    /\ Len(ret.once) <= Len(arg)
    /\ \A i \in 1..Len(ret.once) :
         /\ Carries(ret.once[i], "driver_number") /\ Carries(ret.once[i], "date")
         /\ \A j \in 1..Len(ret.once) : Pair(ret.once[i]) = Pair(ret.once[j]) => i = j
    /\ \A i \in Complete(arg) :
         \E k \in 1..Len(ret.once) :
           /\ Pair(ret.once[k]) = Pair(arg[i])
           /\ \E last \in Complete(arg) :
                /\ ret.once[k] = arg[last]
                /\ \A later \in Complete(arg) :
                     Pair(arg[later]) = Pair(arg[i]) => later <= last

\* what the chunks sent so far add up to: chunk size less the failed count
\* for a call that returned, nothing for a call that raised
RECURSIVE Accepted(_, _, _)
Accepted(calls, sink, j) ==
  IF j = 0 THEN 0
  ELSE Accepted(calls, sink, j - 1)
       + (IF sink[j] = SinkRaised THEN 0 ELSE Len(calls[j]) - sink[j].FailedRecordCount)

\* the chunks a list of n envelopes comes to
ChunksOf(n) == IF n = 0 THEN 0 ELSE (n - 1) \div PUT_RECORDS_LIMIT + 1

\* C13: put_records_batch returns the sum over its chunks of chunk size less
\* the reported failed count for a call that returned and 0 for a call that
\* raised; every chunk is sent once whatever became of the chunks before it,
\* no envelope is sent twice, and the call ends with a count, not an exception.
C13_CountIsSumOverChunks ==
  /\ pc \in {"loop", "returned"} =>
       /\ Len(ret.sink) = Len(ret.calls)
       /\ ret.total_sent = Accepted(ret.calls, ret.sink, Len(ret.calls))
       /\ \A j, k \in 1..Len(ret.calls) : j # k => Range(ret.calls[j]) \cap Range(ret.calls[k]) = {}
  /\ pc = "loop" => Len(ret.calls) < ChunksOf(Len(arg))
  /\ Returned =>
       /\ Len(ret.calls) = ChunksOf(Len(arg))
       /\ ret.total_sent \in 0..Len(arg)

\* 1001 envelopes: the first call raises, the second loses one envelope, the
\* third goes through
C13_Witness ==
  /\ Returned
  /\ Len(arg) = 2 * PUT_RECORDS_LIMIT + 1
  /\ ret.sink = <<SinkRaised, SinkAnswer(1), SinkAnswer(0)>>
  /\ ret.total_sent = PUT_RECORDS_LIMIT

RECURSIVE Flatten(_, _)
Flatten(calls, j) == IF j = 0 THEN <<>> ELSE Flatten(calls, j - 1) \o calls[j]

\* C14: no chunk sent by put_records_batch holds more than 500 envelopes, and
\* the chunks sent, one after the other, are the envelope list: same order,
\* nothing dropped, nothing twice.
C14_ChunksPartitionTheList ==
  /\ pc \in {"loop", "returned"} =>
       /\ \A j \in 1..Len(ret.calls) : Len(ret.calls[j]) \in 1..500
       /\ LET sent == Flatten(ret.calls, Len(ret.calls))
          IN /\ Len(sent) <= Len(arg)
             /\ sent = SubSeq(arg, 1, Len(sent))
  /\ Returned => Flatten(ret.calls, Len(ret.calls)) = arg

\* 1001 envelopes go out as 500, 500 and 1
C14_Witness ==
  /\ Returned
  /\ Len(ret.calls) = 3
  /\ Len(ret.calls[1]) = 500
  /\ Len(ret.calls[2]) = 500
  /\ ret.calls[3] = <<1001>>

\* C15: the partition key of an envelope is the string form of the record's
\* partition-key field when the endpoint declares one and the record has a
\* non-empty value for it, and "global" otherwise (no field declared, field
\* absent, value null or empty).
C15_PartitionKey ==
  Returned =>
    /\ Len(ret) = Len(arg.records)
    /\ \A i \in 1..Len(ret) :
         LET pk_field == ENDPOINT_CONFIGS[arg.endpoint].partition_key_field
             record == arg.records[i]
         IN ret[i].PartitionKey =
              IF pk_field # NO_FIELD /\ Carries(record, pk_field)
              THEN str(record[pk_field])
              ELSE GLOBAL

\* the end of the session is on record, and what it parses to
Ended(resp) ==
  /\ resp.ok
  /\ resp.body # <<>>
  /\ "date_end" \in DOMAIN resp.body[1]
  /\ resp.body[1].date_end # None

EndOf(resp) == fromisoformat(resp.body[1].date_end.str)

\* C16: the detector returns (None, None) when the request fails, when no
\* session comes back, and when the latest session ended more than 5 minutes
\* before now; it returns the session when there is no end timestamp, when the
\* end is at most 5 minutes before now, and when the end cannot be parsed.
C16_DetectorOutcome ==
  Returned =>
    ret = IF ~arg.ok \/ arg.body = <<>> THEN NoSession
          ELSE IF /\ Ended(arg)
                  /\ EndOf(arg) # ValueError
                  /\ Now - EndOf(arg).seconds > 5 * 60
          THEN NoSession
          ELSE [session_key |-> arg.body[1].session_key, session_data |-> arg.body[1]]

(***************************************************************************)
(* Properties of the pacing                                                *)
(***************************************************************************)
\* C17: when the next fetch_endpoint call of a cycle is due, the pacing delay
\* has been slept since the call before it, whatever that call's outcome;
\* when the next cycle of an invocation is due, the inter-cycle delay has been
\* slept; and the invocation returns without an inter-cycle delay after its
\* last cycle.
C17_PacedFetchesAndCycles ==
  /\ (pc = "fetch" /\ fetchLog # <<>>) => slept_ms >= RATE_LIMIT_DELAY_MS
  /\ (pc = "cycle" /\ cycle > 0) => slept_ms >= POLL_INTERVAL_MS
  /\ (pc = "idle" /\ session_key # None) => slept_ms < POLL_INTERVAL_MS

(***************************************************************************)
(* Properties of the failures                                              *)
(***************************************************************************)
\* load_state returned None although the parameter, untouched since, holds a state
LoadFailed == loaded = None /\ ~param_changed /\ ssm_param # None

\* C19: an invocation whose load failed goes on as one without stored state,
\* also when the SSM parameter holds a state of the session detected: it is on
\* the session-changed path, starts from the fresh state (counter 0, no
\* cursors) and, the stream being configured, publishes its one-time records
\* before the cycles; and after a save that failed the invocation is in its
\* next cycle, or returns after the last, with the state it had in memory.
C19_StoreFailuresDoNotStop ==
  /\ (Polling /\ LoadFailed) =>
       /\ session_changed
       /\ (pc = "oneshot" \/ (pc = "cycle" /\ cycle = 0)) => state = Fresh
       /\ cycleIndices # <<>> => cycleIndices[1] = 0
       /\ stream_configured =>
            \/ pc = "oneshot"
            \/ oneshot # None /\ ~oneshot.after_fetch /\ oneshot.endpoints[1] = "sessions"
  /\ lastSave = "failed" =>
       /\ pc = "cycle" =>
            /\ cycle = saves
            /\ cycle < CYCLES_PER_INVOCATION
            /\ state.invocation_count = cycleIndices[Len(cycleIndices)] + 1
            /\ DOMAIN cursorsAtStart \subseteq DOMAIN state.cursors
       /\ InCycle => count = cycleIndices[1] + saves
       /\ pc = "idle" =>
            /\ saves = CYCLES_PER_INVOCATION
            /\ result = Summary(session_key, total_records)

\* the parameter holds a state of the session detected, the load failed, the
\* one-time records went out, the first save failed, the second cycle is on
C19_Witness ==
  /\ pc = "fetch"
  /\ LoadFailed
  /\ ssm_param.session_key = str(session_key)
  /\ ssm_param.invocation_count = CYCLES_PER_INVOCATION
  /\ oneshot # None
  /\ lastSave = "failed"
  /\ count = 1

\* the envelopes built in this cycle for an endpoint, and their timestamps
EnvelopesOf(e) ==
  {all_kinesis_records[i].Data.data : i \in {k \in 1..Len(all_kinesis_records) :
                                              all_kinesis_records[k].Data.endpoint = e}}

Timestamps(e) ==
  {v \in {Get(r, ENDPOINT_CONFIGS[e].date_field) : r \in EnvelopesOf(e)} : Truthy(v)}

\* C20: whatever the publish of a cycle's batch does, the cursor of every
\* endpoint fetched with records stands at the largest timestamp of the
\* records the envelopes were built from; the batch holds envelopes of this
\* cycle's fetches only, so envelopes the stream did not take are not sent
\* again; and the publish shows in the sent count alone.
C20_CursorAdvancesWhateverThePublish ==
  /\ (InCycle \/ CycleOver) =>
       \A e \in Endpoints :
         /\ EnvelopesOf(e) # {} =>
              \E i \in 1..Len(fetchLog) :
                fetchLog[i].endpoint = e /\ fetchLog[i].outcome = "records"
         /\ Timestamps(e) # {} =>
              /\ e \in DOMAIN state.cursors
              /\ state.cursors[e] \in Timestamps(e)
              /\ \A t \in Timestamps(e) : LexLeq(t.str, state.cursors[e].str)
  /\ (pc = "fetch" /\ fetchLog = <<>>) => all_kinesis_records = <<>>
  /\ CycleOver =>
       /\ total_sent \in 0..Len(all_kinesis_records)
       /\ state.invocation_count = count + 1

\* the stream took nothing of a cycle's batch and the cursor of the endpoint
\* fetched has moved all the same
C20_Witness ==
  /\ CycleOver
  /\ stream_configured
  /\ Len(all_kinesis_records) = 1
  /\ total_sent = 0
  /\ "position" \notin DOMAIN cursorsAtStart
  /\ Get(state.cursors, "position") = Stamp(12, 5)

(***************************************************************************)
(* Properties of overlapping invocations                                   *)
(***************************************************************************)
\* C18: save_state overwrites whatever is stored.  While no invocation has
\* started during another one, every invocation loads the state the last
\* cycle of the invocation before it saved (nothing for the first) and the
\* stored cursors and counter never go back; they go back only once
\* invocations have overlapped, by a save of the state an invocation holds in
\* memory over a newer one.
C18_LastWriterWins ==
  pc = "overlap" =>
    /\ (trail.cursor_back \/ trail.counter_back) => trail.overlapped
    /\ ~trail.overlapped =>
         \A i \in Instances : Busy(i) => instances[i].loaded = trail.final
    /\ \A i \in Instances :
         instances[i].at = "cycle" /\ instances[i].cycle > 0 =>
           \/ ssm_param = instances[i].state
           \/ trail.overlapped

\* two invocations overlap: one has saved the cursor 13:50:12.5 and the
\* other has then saved its own, 13:50:12.1, over it
C18_Witness ==
  /\ pc = "overlap"
  /\ trail.cursor_back
  /\ Get(ssm_param.cursors, "position") = Stamp(12, 1)
  /\ \E i \in Instances :
       /\ instances[i].at = "cycle"
       /\ Get(instances[i].state.cursors, "position") = Stamp(12, 5)

(***************************************************************************)
(* Properties of the cursors                                               *)
(***************************************************************************)
\* every cursor of old is in new, and not lower there
HighWater(old, new) ==
  \A e \in DOMAIN old :
    /\ e \in DOMAIN new
    /\ LexLeq(old[e].str, new[e].str)

\* C21: within one session no step of a cycle, whatever the provider
\* returned, lowers or removes a cursor of state["cursors"], and no save
\* lowers or removes a cursor of the stored state.
C21_CursorIsHighWaterMark ==
  [][/\ (/\ pc # "idle"
         /\ state # None
         /\ state'.session_key = state.session_key)
          => HighWater(state.cursors, state'.cursors)
     /\ (/\ ssm_param # None
         /\ ssm_param'.session_key = ssm_param.session_key)
          => HighWater(ssm_param.cursors, ssm_param'.cursors)]_vars

====
